---- MODULE Spec2Model ----
(***************************************************************************)
(* A model of the TFX iterative-schema lab: the pipeline coordinator       *)
(* (src/main.py, src/src/data_pipeline.py), the schema editor              *)
(* (src/src/schema_manager.py) and the lineage reporter                    *)
(* (src/src/metadata_tracker.py).                                          *)
(*                                                                         *)
(* The external libraries (the orchestration context, the data-validation  *)
(* library, the metadata store) are modelled by what the calls made on     *)
(* them return or raise.  A Python call that may raise is an operator      *)
(* returning [exc, val]: exc = "" when it returned val, the exception      *)
(* otherwise.  The schema is mutated in place by the code, so val carries  *)
(* the schema as it stands when the call ends, also when it raised.        *)
(***************************************************************************)
EXTENDS Integers, Sequences, FiniteSets, TLC

VARIABLES
    \* ---- src/main.py, src/src/data_pipeline.py
    pc,            \* where main() stands
    data_exists,   \* os.path.exists(data_file)
    components,    \* TFXPipeline.components: its keys, in insertion order
    invoked,       \* the context.run calls made so far: <<[stage, inputs]>>
    files,         \* the files written under pipeline_root
    origin,        \* the exception as first raised ("" when none)
    exc,           \* the exception now propagating ("" when none)
    shown,         \* the context.show calls made by display_results
    queries,       \* the metadata-store queries issued so far
    \* ---- src/src/schema_manager.py
    schema,        \* the schema object the editor holds
    cs_pc,         \* where customize_schema stands
    edits,         \* the edits customize_schema has started, in order
    probe_log,     \* what add_additional_validations logged
    call,          \* the editor call in progress or last made
    before,        \* the schema as handed to that call
    returned,      \* the schemas returned by successive customize_schema calls
    valid,         \* what validate_schema last returned
    \* ---- src/src/metadata_tracker.py
    store,         \* the metadata store's content: artifacts and events
    lineage        \* what the last lineage call returned or raised

vars == <<pc, data_exists, components, invoked, files, origin, exc, shown,
          queries, schema, cs_pc, edits, probe_log, call, before, returned,
          valid, store, lineage>>

main_vars == <<pc, data_exists, components, invoked, files, origin, exc,
               shown, queries>>
editor_vars == <<schema, cs_pc, edits, probe_log, call, before, returned, valid>>
tracker_vars == <<store, lineage>>

\* ------------------------------------------------------------------ bounds

\* Longest environment list a schema starts with.
MaxEnvs == 2
\* Longest tag list handed to add_environments.
MaxTags == 2
\* How often one editor call is repeated on its own result.
MaxApplications == 2
\* Most artifacts and most events the metadata store holds.
MaxArtifacts == 2
MaxEvents == 2

\* ------------------------------------------------------------- sequences

Range(s) == {s[i] : i \in 1..Len(s)}

NoDup(s) == \A i, j \in 1..Len(s) : i # j => s[i] # s[j]

IsPrefix(s, t) == Len(s) <= Len(t) /\ \A i \in 1..Len(s) : s[i] = t[i]

\* The duplicate-free sequences over S of length at most n.
RECURSIVE DistinctSeqs(_, _)
DistinctSeqs(S, n) ==
    IF n = 0 THEN {<<>>}
    ELSE LET shorter == DistinctSeqs(S, n - 1)
         IN  shorter \cup
             {s \in {Append(t, x) : t \in shorter, x \in S} : NoDup(s)}

\* All sequences over S of length at most n.
RECURSIVE SeqsUpTo(_, _)
SeqsUpTo(S, n) ==
    IF n = 0 THEN {<<>>}
    ELSE LET shorter == SeqsUpTo(S, n - 1)
         IN  shorter \cup {Append(s, x) : s \in shorter, x \in S}

Ok(v) == [exc |-> "", val |-> v]
Raise(e, v) == [exc |-> e, val |-> v]


\* ------------------------------------------------------------ the schema

\* customize_schema's arguments to customize_age_domain.
MinAge == 17
MaxAge == 90

\* A feature's domain_info: unset, an int_domain or a reference to a string domain.
NoDomain == [kind |-> "none", name |-> "", min |-> 0, max |-> 0]
IntDomain(name, min, max) ==
    [kind |-> "int_domain", name |-> name, min |-> min, max |-> max]
StringDomain(name) == [kind |-> "domain", name |-> name, min |-> 0, max |-> 0]

\* The columns of the census data the editor names, in file order.
FeatureNames == <<"age", "workclass", "education", "label">>

\* The environment tags a schema may start with.
EnvTags == {"TRAINING", "SERVING", "EVAL"}
NotInTags == {"TRAINING", "SERVING"}

\* The features a schema may hold for a column: the numeric column comes with no
\* domain or an int_domain wider than the editor's, a string column with the
\* reference to its string domain.  The columns the editor edits come with any
\* duplicate-free not_in_environment list, the ones it only probes with none.
FeaturesOf(name) ==
    LET domains == IF name = "age" THEN {NoDomain, IntDomain("", 0, 120)}
                   ELSE {StringDomain(name)}
        nots == IF name \in {"age", "label"} THEN DistinctSeqs(NotInTags, MaxEnvs)
                ELSE {<<>>}
    IN  {[name |-> name, domain |-> d, not_in_environment |-> n] :
            d \in domains, n \in nots}

\* The feature lists over the columns from the i-th on, in file order.
RECURSIVE FeatureLists(_)
FeatureLists(i) ==
    IF i > Len(FeatureNames) THEN {<<>>}
    ELSE LET rest == FeatureLists(i + 1)
         IN  rest \cup {<<f>> \o r : f \in FeaturesOf(FeatureNames[i]), r \in rest}

Schemas ==
    {[feature |-> fl, default_environment |-> d] :
        fl \in FeatureLists(1), d \in DistinctSeqs(EnvTags, MaxEnvs)}

EmptySchema == [feature |-> <<>>, default_environment |-> <<>>]

HasFeature(s, name) == \E i \in 1..Len(s.feature) : s.feature[i].name = name

\* tfdv.get_feature: the first feature of that name (its index, as the code
\* gets a reference into the schema), ValueError when there is none.
get_feature(s, name) ==
    IF HasFeature(s, name)
    THEN Ok(CHOOSE i \in 1..Len(s.feature) :
                /\ s.feature[i].name = name
                /\ \A j \in 1..(i - 1) : s.feature[j].name # name)
    ELSE Raise("ValueError", 0)

\* tfdv.set_domain: replaces the feature's domain_info, whatever it was.
set_domain(s, name, domain) ==
    LET f == get_feature(s, name)
    IN  IF f.exc # "" THEN Raise(f.exc, s)
        ELSE Ok([s EXCEPT !.feature[f.val].domain = domain])

\* ----------------------------------------------------- the schema editor

\* Mutant of customize_age_domain: the handler logs and does not raise again.
customize_age_domain_quiet(s, min_age, max_age) ==
    Ok(set_domain(s, "age", IntDomain("age", min_age, max_age)).val)

customize_age_domain(s, min_age, max_age) ==
    LET r == set_domain(s, "age", IntDomain("age", min_age, max_age))
    IN  IF r.exc # "" THEN Raise(r.exc, r.val) ELSE Ok(r.val)

\* The loop of add_environments: each tag is tested against the list as the
\* tags before it left it.
RECURSIVE AppendAbsent(_, _)
AppendAbsent(envs, tags) ==
    IF tags = <<>> THEN envs
    ELSE AppendAbsent(IF Head(tags) \in Range(envs) THEN envs
                      ELSE Append(envs, Head(tags)),
                      Tail(tags))

\* Mutants of add_environments: the test for presence left out, and the test made
\* against the list as it was on entry.
add_environments_always(s, environments) ==
    Ok([s EXCEPT !.default_environment = @ \o environments])

add_environments_stale(s, environments) ==
    LET old == s.default_environment
    IN  Ok([s EXCEPT !.default_environment =
                old \o SelectSeq(environments, LAMBDA e : e \notin Range(old))])

add_environments(s, environments) ==
    Ok([s EXCEPT !.default_environment = AppendAbsent(@, environments)])

\* Mutant of configure_serving_environment: the test for presence left out.
configure_serving_environment_always(s) ==
    LET f == get_feature(s, "label")
    IN  IF f.exc # "" THEN Raise(f.exc, s)
        ELSE Ok([s EXCEPT !.feature[f.val].not_in_environment = Append(@, "SERVING")])

\* Mutant of configure_serving_environment: SERVING excluded for every feature.
configure_serving_environment_everywhere(s) ==
    LET f == get_feature(s, "label")
    IN  IF f.exc # "" THEN Raise(f.exc, s)
        ELSE Ok([s EXCEPT !.feature = [i \in 1..Len(s.feature) |->
                    IF "SERVING" \notin Range(s.feature[i].not_in_environment)
                    THEN [s.feature[i] EXCEPT !.not_in_environment = Append(@, "SERVING")]
                    ELSE s.feature[i]]])

configure_serving_environment(s) ==
    LET f == get_feature(s, "label")
    IN  IF f.exc # "" THEN Raise(f.exc, s)
        ELSE IF "SERVING" \notin Range(s.feature[f.val].not_in_environment)
        THEN Ok([s EXCEPT !.feature[f.val].not_in_environment = Append(@, "SERVING")])
        ELSE Ok(s)

\* Mutant of Probe: the inner try/except left out, so a missing feature raises.
Probe_uncaught(s, name) ==
    LET f == get_feature(s, name)
    IN  IF f.exc # "" THEN Raise(f.exc, <<>>) ELSE Ok(<<<<name, "found">>>>)

\* One probe of add_additional_validations: get_feature inside a bare except,
\* either way one line is logged.
Probe(s, name) ==
    LET f == get_feature(s, name)
    IN  IF f.exc # "" THEN Ok(<<<<name, "not found">>>>) ELSE Ok(<<<<name, "found">>>>)

\* add_additional_validations: the two probes in turn; the outer handler logs
\* and does not raise.  val is the lines logged; the schema is not written to.
add_additional_validations(s) ==
    LET p1 == Probe(s, "education")
        p2 == Probe(s, "workclass")
    IN  IF p1.exc # "" THEN Ok(<<<<"additional validations", "failed">>>>)
        ELSE IF p2.exc # "" THEN Ok(p1.val \o <<<<"additional validations", "failed">>>>)
        ELSE Ok(p1.val \o p2.val \o <<<<"additional validations", "checked">>>>)

\* The features validate_schema looks for.
RequiredFeatures == {"age", "label"}

\* Mutant of validate_schema: a schema without a required feature is not valid.
validate_schema_strict(s) ==
    IF s = <<>> \/ s.feature = <<>>
    THEN Ok([result |-> FALSE, warned |-> {}, schema |-> s])
    ELSE LET missing == {r \in RequiredFeatures : ~HasFeature(s, r)}
         IN  Ok([result |-> missing = {}, warned |-> missing, schema |-> s])

\* validate_schema: False for a schema without features and when reading the
\* argument raises (it is None, <<>> here), which the handler logs; else True,
\* with a warning for each required feature not among the names.  val carries
\* the argument as the call leaves it.
validate_schema(s) ==
    IF s = <<>> THEN Ok([result |-> FALSE, warned |-> {}, schema |-> s])
    ELSE IF s.feature = <<>> THEN Ok([result |-> FALSE, warned |-> {}, schema |-> s])
    ELSE Ok([result |-> TRUE,
             warned |-> {r \in RequiredFeatures : ~HasFeature(s, r)},
             schema |-> s])


\* ------------------------------------------- customize_schema, edit by edit

NoCall == [op |-> "none", tags |-> <<>>, n |-> 0]

\* validate_schema not called yet; else its argument, what it raised and
\* returned, and the required features it warned about.
NoVerdict == [made |-> FALSE, arg |-> <<>>, exc |-> "", result |-> FALSE,
              warned |-> {}]

\* The tags customize_schema hands to add_environments.
DefaultTags == <<"TRAINING", "SERVING">>

\* Entry of customize_schema on schema s.
EnterCustomizeSchema(s) ==
    /\ schema' = s
    /\ before' = s
    /\ cs_pc' = "customize_age_domain"
    /\ edits' = <<>>
    /\ probe_log' = <<>>

\* An edit of customize_schema ended with r: on to the next edit, or to the handler.
EditEnded(r, name, next) ==
    /\ schema' = r.val
    /\ edits' = Append(edits, name)
    /\ cs_pc' = IF r.exc = "" THEN next ELSE "except"
    /\ exc' = r.exc
    /\ origin' = IF r.exc = "" THEN origin ELSE r.exc

EditAgeDomain ==
    /\ cs_pc = "customize_age_domain"
    /\ EditEnded(customize_age_domain(schema, MinAge, MaxAge),
                 "customize_age_domain", "add_environments")
    /\ UNCHANGED <<pc, data_exists, components, invoked, files, shown, queries,
                   probe_log, call, before, returned, valid, store, lineage>>

EditEnvironments ==
    /\ cs_pc = "add_environments"
    /\ EditEnded(add_environments(schema, DefaultTags),
                 "add_environments", "configure_serving_environment")
    /\ UNCHANGED <<pc, data_exists, components, invoked, files, shown, queries,
                   probe_log, call, before, returned, valid, store, lineage>>

EditServingEnvironment ==
    /\ cs_pc = "configure_serving_environment"
    /\ EditEnded(configure_serving_environment(schema),
                 "configure_serving_environment", "add_additional_validations")
    /\ UNCHANGED <<pc, data_exists, components, invoked, files, shown, queries,
                   probe_log, call, before, returned, valid, store, lineage>>

\* The last edit, and the return of the schema that follows it.
EditAdditionalValidations ==
    /\ cs_pc = "add_additional_validations"
    /\ LET r == add_additional_validations(schema)
       IN  /\ probe_log' = r.val
           /\ edits' = Append(edits, "add_additional_validations")
           /\ cs_pc' = IF r.exc = "" THEN "returned" ELSE "except"
           /\ exc' = r.exc
           /\ origin' = IF r.exc = "" THEN origin ELSE r.exc
           /\ returned' = IF r.exc = "" THEN Append(returned, schema) ELSE returned
    /\ UNCHANGED <<pc, data_exists, components, invoked, files, shown, queries,
                   schema, call, before, valid, store, lineage>>

\* Mutant of CustomizeSchemaExcept: the handler logs and returns the schema.
CustomizeSchemaExcept_swallow ==
    /\ cs_pc = "except"
    /\ cs_pc' = "returned"
    /\ exc' = ""
    /\ returned' = Append(returned, schema)
    /\ UNCHANGED <<pc, data_exists, components, invoked, files, origin, shown,
                   queries, schema, edits, probe_log, call, before, valid,
                   tracker_vars>>

\* customize_schema's handler: logs and raises again.
CustomizeSchemaExcept ==
    /\ cs_pc = "except"
    /\ cs_pc' = "raised"
    /\ UNCHANGED <<main_vars, schema, edits, probe_log, call, before, returned, valid,
                   tracker_vars>>

\* --------------------------------------------- the editor called on its own

\* customize_schema called on a schema, or again on the schema it returned.
CallCustomizeSchema ==
    /\ pc = "editor"
    /\ cs_pc \in {"idle", "returned"}
    /\ call.op \in {"none", "customize_schema"}
    /\ call.n < MaxApplications
    /\ EnterCustomizeSchema(schema)
    /\ call' = [op |-> "customize_schema", tags |-> <<>>, n |-> call.n + 1]
    /\ UNCHANGED <<main_vars, returned, valid, tracker_vars>>

\* add_environments called with a tag list, or again with the same one.
CallAddEnvironments(tags) ==
    /\ pc = "editor"
    /\ cs_pc = "idle"
    /\ \/ call.op = "none"
       \/ call.op = "add_environments" /\ call.tags = tags
    /\ call.n < MaxApplications
    /\ exc = ""
    /\ LET r == add_environments(schema, tags)
       IN  /\ schema' = r.val
           /\ exc' = r.exc
           /\ origin' = r.exc
    /\ before' = schema
    /\ call' = [op |-> "add_environments", tags |-> tags, n |-> call.n + 1]
    /\ UNCHANGED <<pc, data_exists, components, invoked, files, shown, queries,
                   cs_pc, edits, probe_log, returned, valid, tracker_vars>>

\* configure_serving_environment called, or called again.
CallConfigureServing ==
    /\ pc = "editor"
    /\ cs_pc = "idle"
    /\ call.op \in {"none", "configure_serving_environment"}
    /\ call.n < MaxApplications
    /\ exc = ""
    /\ LET r == configure_serving_environment(schema)
       IN  /\ schema' = r.val
           /\ exc' = r.exc
           /\ origin' = r.exc
    /\ before' = schema
    /\ call' = [op |-> "configure_serving_environment", tags |-> <<>>,
                n |-> call.n + 1]
    /\ UNCHANGED <<pc, data_exists, components, invoked, files, shown, queries,
                   cs_pc, edits, probe_log, returned, valid, tracker_vars>>

\* validate_schema called last, on the schema as it came or as customize_schema
\* returned it, or on None.
CallValidateSchema ==
    /\ pc = "editor"
    /\ cs_pc \in {"idle", "returned"}
    /\ call.op \in {"none", "customize_schema"}
    /\ exc = ""
    /\ \E s \in {schema, <<>>} :
          LET r == validate_schema(s)
          IN  /\ valid' = [made |-> TRUE, arg |-> s, exc |-> r.exc,
                           result |-> r.val.result, warned |-> r.val.warned]
              /\ schema' = IF s = <<>> THEN schema ELSE r.val.schema
    /\ pc' = "validated"
    /\ UNCHANGED <<data_exists, components, invoked, files, origin, exc, shown,
                   queries, cs_pc, edits, probe_log, call, before, returned,
                   tracker_vars>>

EmptyStore == [artifacts |-> <<>>, events |-> <<>>]
NoLineage == [op |-> "none", arg |-> 0, fails |-> {}, exc |-> "", val |-> <<>>]

InitEditor ==
    /\ pc = "editor"
    /\ data_exists = FALSE
    /\ components = <<>>
    /\ invoked = <<>>
    /\ files = {}
    /\ origin = ""
    /\ exc = ""
    /\ shown = <<>>
    /\ queries = <<>>
    /\ schema \in Schemas
    /\ cs_pc = "idle"
    /\ edits = <<>>
    /\ probe_log = <<>>
    /\ call = NoCall
    /\ before = EmptySchema
    /\ returned = <<>>
    /\ valid = NoVerdict
    /\ store = EmptyStore
    /\ lineage = NoLineage

NextEditor ==
    \/ CallCustomizeSchema
    \/ \E tags \in SeqsUpTo(EnvTags, MaxTags) : CallAddEnvironments(tags)
    \/ CallConfigureServing
    \/ CallValidateSchema
    \/ EditAgeDomain
    \/ EditEnvironments
    \/ EditServingEnvironment
    \/ EditAdditionalValidations
    \/ CustomizeSchemaExcept

SpecEditor == InitEditor /\ [][NextEditor]_vars


\* ------------------------------------------------- claims on the editor

\* The not_in_environment list of the first feature called name.
NotInEnvironment(s, name) == s.feature[get_feature(s, name).val].not_in_environment

\* The order in which customize_schema makes its edits.
EditOrder == <<"customize_age_domain", "add_environments",
               "configure_serving_environment", "add_additional_validations">>

\* C3: customize_schema is idempotent: every schema it returns when applied again
\* to a schema it returned equals that schema (age domain, default environments
\* and every feature's excluded environments included).
C3_CustomizeIdempotent ==
    \A i \in 1..Len(returned) :
        /\ returned[i] = returned[1]
        /\ returned[i].default_environment = returned[1].default_environment
        /\ returned[i].feature = returned[1].feature

C3_Witness ==
    /\ call.op = "customize_schema"
    /\ call.n = 2
    /\ Len(returned) = 2
    /\ cs_pc = "returned"

\* C4: add_environments on a duplicate-free default environment list leaves it
\* duplicate-free, whatever the tag list and also when applied a second time with
\* the same tags; the list then holds every requested tag and starts with the
\* list as it was.
C4_AddEnvironmentsNoDuplicates ==
    (call.op = "add_environments" /\ NoDup(before.default_environment)) =>
        /\ NoDup(schema.default_environment)
        /\ Range(call.tags) \subseteq Range(schema.default_environment)
        /\ IsPrefix(before.default_environment, schema.default_environment)
        /\ exc = ""

C4_Witness ==
    /\ call = [op |-> "add_environments", tags |-> <<"EVAL", "EVAL">>, n |-> 2]
    /\ schema.default_environment = <<"TRAINING", "EVAL">>

\* C5: configure_serving_environment on a schema whose label is already excluded
\* from SERVING changes nothing; otherwise it appends exactly one SERVING to the
\* label's list and changes nothing else.
C5_ServingExclusion ==
    (call.op = "configure_serving_environment" /\ HasFeature(before, "label")) =>
        /\ exc = ""
        /\ IF "SERVING" \in Range(NotInEnvironment(before, "label"))
           THEN schema = before
           ELSE schema = [before EXCEPT
                    !.feature[get_feature(before, "label").val].not_in_environment =
                        Append(@, "SERVING")]

C5_Witness ==
    /\ call.op = "configure_serving_environment"
    /\ call.n = 2
    /\ NotInEnvironment(before, "label") = <<"TRAINING", "SERVING">>
    /\ schema = before

\* C8: add_additional_validations never raises: whether or not the schema has
\* education and workclass, both probes are made and logged in turn, and
\* customize_schema returns the schema.
C8_ProbingContinues ==
    ("add_additional_validations" \in Range(edits)) =>
        /\ exc = ""
        /\ cs_pc = "returned"
        /\ Len(probe_log) = 3
        /\ probe_log[1] = <<"education",
               IF HasFeature(schema, "education") THEN "found" ELSE "not found">>
        /\ probe_log[2] = <<"workclass",
               IF HasFeature(schema, "workclass") THEN "found" ELSE "not found">>
        /\ probe_log[3] = <<"additional validations", "checked">>
        /\ returned # <<>>
        /\ returned[Len(returned)] = schema

C8_Witness ==
    /\ cs_pc = "returned"
    /\ ~HasFeature(schema, "education")
    /\ ~HasFeature(schema, "workclass")
    /\ probe_log[1] = <<"education", "not found">>
    /\ probe_log[2] = <<"workclass", "not found">>

\* C9: customize_schema makes its edits in the fixed order, one after the other;
\* when the age edit fails (no age feature) no other edit is made, when the label
\* edit fails (no label feature) the probing is not made, and a schema is
\* returned only after all four.
C9_EditOrder ==
    call.op = "customize_schema" =>
        /\ IsPrefix(edits, EditOrder)
        /\ ~HasFeature(before, "age") => Len(edits) <= 1
        /\ ~HasFeature(before, "label") => Len(edits) <= 3
        /\ cs_pc \in {"except", "raised"} =>
              /\ exc = "ValueError"
              /\ Len(edits) \in {1, 3}
        /\ cs_pc = "returned" => edits = EditOrder
        /\ cs_pc \in {"customize_age_domain", "add_environments",
                      "configure_serving_environment", "add_additional_validations"}
              => cs_pc = EditOrder[Len(edits) + 1]

C9_Witness ==
    /\ call.op = "customize_schema"
    /\ cs_pc = "raised"
    /\ edits = SubSeq(EditOrder, 1, 3)
    /\ ~HasFeature(before, "label")


\* ------------------------------------------------------ the metadata store

ArtifactTypes == {"ExampleAnomalies", "Schema"}

\* metadata_store_pb2.Event.Type: the two the tracker looks for, and one of the
\* others.
EventTypes == {"INPUT", "OUTPUT", "DECLARED_INPUT"}

ExecutionIds == {1, 2}

\* The store numbers its artifacts as it gets them.
ArtifactLists ==
    UNION {{[i \in 1..n |-> [id |-> i, type |-> ty[i]]] : ty \in [1..n -> ArtifactTypes]} :
           n \in 0..MaxArtifacts}

\* An event links a stored artifact to an execution; no event is stored twice.
Stores ==
    {st \in {[artifacts |-> a, events |-> ev] :
                a \in ArtifactLists,
                ev \in DistinctSeqs([artifact_id : 1..MaxArtifacts,
                                     execution_id : ExecutionIds,
                                     type : EventTypes], MaxEvents)} :
        \A i \in 1..Len(st.events) : st.events[i].artifact_id <= Len(st.artifacts)}

\* The queries the tracker makes.  A query raises when the store fails on it.
QueryNames == {"get_artifacts_by_type:ExampleAnomalies", "get_artifacts_by_type:Schema",
               "get_events_by_artifact_ids", "get_events_by_execution_ids"}

\* During one call of the tracker the store answers every query, or fails on one
\* kind of query.
FailureModes == {{}} \cup {{q} : q \in QueryNames}

get_artifacts_by_type(st, type_name, fails) ==
    IF ("get_artifacts_by_type:" \o type_name) \in fails THEN Raise("StoreError", <<>>)
    ELSE Ok(SelectSeq(st.artifacts, LAMBDA a : a.type = type_name))

get_events_by_artifact_ids(st, ids, fails) ==
    IF "get_events_by_artifact_ids" \in fails THEN Raise("StoreError", <<>>)
    ELSE Ok(SelectSeq(st.events, LAMBDA e : e.artifact_id \in Range(ids)))

get_events_by_execution_ids(st, ids, fails) ==
    IF "get_events_by_execution_ids" \in fails THEN Raise("StoreError", <<>>)
    ELSE Ok(SelectSeq(st.events, LAMBDA e : e.execution_id \in Range(ids)))

\* ----------------------------------------------------- the lineage reporter

\* Python's None, and a lineage record: the result is a list of at most one record.
None == <<>>

ArtifactIds(events) == [i \in 1..Len(events) |-> events[i].artifact_id]

get_schema_artifacts(st, fails) ==
    LET r == get_artifacts_by_type(st, "Schema", fails)
    IN  IF r.exc # "" THEN Ok(<<>>)
        ELSE Ok([i \in 1..Len(r.val) |-> [uri |-> r.val[i].id, id |-> r.val[i].id]])

get_example_anomalies_artifacts(st, fails) ==
    LET r == get_artifacts_by_type(st, "ExampleAnomalies", fails)
    IN  IF r.exc # "" THEN Ok(<<>>) ELSE Ok(r.val)

\* Mutants of track_artifact_lineage: the last event taken for the first, and
\* every event that is no input taken for an output.
track_artifact_lineage_last_event(st, artifact_id, fails) ==
    LET ev == get_events_by_artifact_ids(st, <<artifact_id>>, fails)
    IN  IF ev.exc # "" \/ ev.val = <<>> THEN Ok(None)
        ELSE LET execution_id == ev.val[Len(ev.val)].execution_id
                 xe == get_events_by_execution_ids(st, <<execution_id>>, fails)
             IN  IF xe.exc # "" THEN Ok(None)
                 ELSE Ok(<<[artifact_id |-> artifact_id,
                            execution_id |-> execution_id,
                            input_ids |-> ArtifactIds(SelectSeq(xe.val,
                                LAMBDA e : e.type = "INPUT")),
                            output_ids |-> ArtifactIds(SelectSeq(xe.val,
                                LAMBDA e : e.type = "OUTPUT"))]>>)

track_artifact_lineage_else_output(st, artifact_id, fails) ==
    LET ev == get_events_by_artifact_ids(st, <<artifact_id>>, fails)
    IN  IF ev.exc # "" \/ ev.val = <<>> THEN Ok(None)
        ELSE LET execution_id == ev.val[1].execution_id
                 xe == get_events_by_execution_ids(st, <<execution_id>>, fails)
             IN  IF xe.exc # "" THEN Ok(None)
                 ELSE Ok(<<[artifact_id |-> artifact_id,
                            execution_id |-> execution_id,
                            input_ids |-> ArtifactIds(SelectSeq(xe.val,
                                LAMBDA e : e.type = "INPUT")),
                            output_ids |-> ArtifactIds(SelectSeq(xe.val,
                                LAMBDA e : e.type # "INPUT"))]>>)

\* track_artifact_lineage: whatever is raised inside is logged and None returned.
track_artifact_lineage(st, artifact_id, fails) ==
    LET ev == get_events_by_artifact_ids(st, <<artifact_id>>, fails)
    IN  IF ev.exc # "" THEN Ok(None)
        ELSE IF ev.val = <<>> THEN Ok(None)
        ELSE LET first_event == ev.val[1]
                 execution_id == first_event.execution_id
                 xe == get_events_by_execution_ids(st, <<execution_id>>, fails)
             IN  IF xe.exc # "" THEN Ok(None)
                 ELSE Ok(<<[artifact_id |-> artifact_id,
                            execution_id |-> execution_id,
                            input_ids |-> ArtifactIds(SelectSeq(xe.val,
                                LAMBDA e : e.type = "INPUT")),
                            output_ids |-> ArtifactIds(SelectSeq(xe.val,
                                LAMBDA e : e.type = "OUTPUT"))]>>)

\* Mutant of track_example_anomalies_lineage: the first artifact taken without
\* the test for an empty list and outside any handler.
track_example_anomalies_lineage_unguarded(st, fails) ==
    LET a == get_example_anomalies_artifacts(st, fails)
    IN  IF a.val = <<>> THEN Raise("IndexError", None)
        ELSE track_artifact_lineage(st, a.val[1].id, fails)

track_example_anomalies_lineage(st, fails) ==
    LET a == get_example_anomalies_artifacts(st, fails)
    IN  IF a.exc # "" THEN Ok(None)
        ELSE IF a.val = <<>> THEN Ok(None)
        ELSE LET first_anomalies == a.val[1]
                 r == track_artifact_lineage(st, first_anomalies.id, fails)
             IN  IF r.exc # "" THEN Ok(None) ELSE Ok(r.val)

\* --------------------------------------------- the reporter called on its own

CallTrackExampleAnomalies(fails) ==
    /\ pc = "tracker"
    /\ lineage.op = "none"
    /\ LET r == track_example_anomalies_lineage(store, fails)
       IN  lineage' = [op |-> "track_example_anomalies_lineage", arg |-> 0,
                       fails |-> fails, exc |-> r.exc, val |-> r.val]
    /\ UNCHANGED <<main_vars, editor_vars, store>>

CallTrackArtifact(artifact_id, fails) ==
    /\ pc = "tracker"
    /\ lineage.op = "none"
    /\ LET r == track_artifact_lineage(store, artifact_id, fails)
       IN  lineage' = [op |-> "track_artifact_lineage", arg |-> artifact_id,
                       fails |-> fails, exc |-> r.exc, val |-> r.val]
    /\ UNCHANGED <<main_vars, editor_vars, store>>

InitTracker ==
    /\ pc = "tracker"
    /\ data_exists = FALSE
    /\ components = <<>>
    /\ invoked = <<>>
    /\ files = {}
    /\ origin = ""
    /\ exc = ""
    /\ shown = <<>>
    /\ queries = <<>>
    /\ schema = EmptySchema
    /\ cs_pc = "idle"
    /\ edits = <<>>
    /\ probe_log = <<>>
    /\ call = NoCall
    /\ before = EmptySchema
    /\ returned = <<>>
    /\ valid = NoVerdict
    /\ store \in Stores
    /\ lineage = NoLineage

NextTracker ==
    \/ \E fails \in FailureModes : CallTrackExampleAnomalies(fails)
    \/ \E id \in 1..(MaxArtifacts + 1), fails \in FailureModes :
           CallTrackArtifact(id, fails)

SpecTracker == InitTracker /\ [][NextTracker]_vars


\* ------------------------------------------------ claims on the reporter

\* The places in the store of the artifacts of a type, of the events that
\* reference an artifact, and of the events of an execution.
PlacesOfType(st, type_name) ==
    {i \in 1..Len(st.artifacts) : st.artifacts[i].type = type_name}

PlacesOfArtifact(st, artifact_id) ==
    {i \in 1..Len(st.events) : st.events[i].artifact_id = artifact_id}

PlacesOfExecution(st, execution_id) ==
    {i \in 1..Len(st.events) : st.events[i].execution_id = execution_id}

Least(S) == CHOOSE i \in S : \A j \in S : i <= j

\* ids lists the artifact ids of the events at the places I, in store order.
InStoreOrder(ids, st, I) ==
    /\ Len(ids) = Cardinality(I)
    /\ \A i \in I : ids[Cardinality({j \in I : j <= i})] = st.events[i].artifact_id

\* The record of the last call, when it returned one.
HasRecord == lineage.op # "none" /\ lineage.exc = "" /\ lineage.val # None
Record == lineage.val[1]

\* C6: track_example_anomalies_lineage never raises, and returns None when the
\* store holds no ExampleAnomalies artifact and when no event references the
\* first one.
C6_EmptyLineage ==
    lineage.op = "track_example_anomalies_lineage" =>
        LET places == PlacesOfType(store, "ExampleAnomalies")
        IN  /\ lineage.exc = ""
            /\ places = {} => lineage.val = None
            /\ (places # {} /\
                PlacesOfArtifact(store, store.artifacts[Least(places)].id) = {})
                  => lineage.val = None

C6_Witness ==
    /\ lineage.op = "track_example_anomalies_lineage"
    /\ lineage.fails = {}
    /\ store.artifacts # <<>>
    /\ store.events # <<>>
    /\ PlacesOfType(store, "ExampleAnomalies") = {}
    /\ lineage.val = None
    /\ lineage.exc = ""

\* C7, as claimed: the input ids and the output ids of a record are disjoint and
\* together are the artifact ids of all the events of the execution.
C7_AsClaimed ==
    HasRecord =>
        LET places == PlacesOfExecution(store, Record.execution_id)
        IN  /\ Range(Record.input_ids) \cap Range(Record.output_ids) = {}
            /\ Range(Record.input_ids) \cup Range(Record.output_ids) =
                   {store.events[i].artifact_id : i \in places}

\* C7, amended: the input ids are the artifact ids of the execution's INPUT events
\* and the output ids those of its OUTPUT events, one entry an event; events of
\* another type are in neither.  The two are disjoint when no artifact has both
\* an INPUT and an OUTPUT event of the execution, and together cover the
\* execution's events when all of them are INPUT or OUTPUT events.
C7_Partition ==
    HasRecord =>
        LET places == PlacesOfExecution(store, Record.execution_id)
            ins == {i \in places : store.events[i].type = "INPUT"}
            outs == {i \in places : store.events[i].type = "OUTPUT"}
            ids(I) == {store.events[i].artifact_id : i \in I}
        IN  /\ Range(Record.input_ids) = ids(ins)
            /\ Range(Record.output_ids) = ids(outs)
            /\ Len(Record.input_ids) = Cardinality(ins)
            /\ Len(Record.output_ids) = Cardinality(outs)
            /\ ids(ins) \cap ids(outs) = {} =>
                   Range(Record.input_ids) \cap Range(Record.output_ids) = {}
            /\ ins \cup outs = places =>
                   Range(Record.input_ids) \cup Range(Record.output_ids) = ids(places)

C7_Witness ==
    /\ HasRecord
    /\ lineage.op = "track_artifact_lineage"
    /\ Record.input_ids # <<>>
    /\ Record.output_ids # <<>>
    /\ Range(Record.input_ids) \cap Range(Record.output_ids) = {}
    /\ Cardinality(PlacesOfExecution(store, Record.execution_id)) = 2

\* C10: the record returned by track_example_anomalies_lineage is that of the
\* first ExampleAnomalies artifact and of the execution of the first event that
\* references it, with the artifact ids of that execution's INPUT and OUTPUT
\* events in store order; it is returned whenever there are such an artifact and
\* such an event and the store answers.
C10_LineageRecord ==
    lineage.op = "track_example_anomalies_lineage" =>
        LET places == PlacesOfType(store, "ExampleAnomalies")
            first_id == store.artifacts[Least(places)].id
            refs == PlacesOfArtifact(store, first_id)
            execution_id == store.events[Least(refs)].execution_id
            of_exec == PlacesOfExecution(store, execution_id)
        IN  /\ lineage.val # None =>
                /\ places # {}
                /\ refs # {}
                /\ Len(lineage.val) = 1
                /\ Record.artifact_id = first_id
                /\ Record.execution_id = execution_id
                /\ InStoreOrder(Record.input_ids, store,
                       {i \in of_exec : store.events[i].type = "INPUT"})
                /\ InStoreOrder(Record.output_ids, store,
                       {i \in of_exec : store.events[i].type = "OUTPUT"})
            /\ (lineage.fails = {} /\ places # {} /\ refs # {}) => lineage.val # None

C10_Witness ==
    /\ lineage.op = "track_example_anomalies_lineage"
    /\ HasRecord
    /\ store.artifacts[1].type = "Schema"
    /\ Record.artifact_id = 2
    /\ Record.input_ids = <<1>>
    /\ Record.output_ids = <<2>>


\* ------------------------------------------------ the pipeline coordinator

\* What a stage may raise.
StageErrors == {"RuntimeError", "IOError"}

\* An output of a component, the data directory, and the curated schema file
\* (of: the artifact whose content it holds).
Artifact(component, key) == [kind |-> "artifact", of |-> component, key |-> key]
DataRoot == [kind |-> "path", of |-> "", key |-> "data_root"]
SchemaFile == [kind |-> "file", of |-> "", key |-> "updated_schema/schema.pbtxt"]

\* The inputs each component is built with.
ExampleGenInputs == {DataRoot}
StatisticsGenInputs == {Artifact("example_gen", "examples")}
SchemaGenInputs == {Artifact("statistics_gen", "statistics")}
ImportSchemaGenInputs == {SchemaFile}

\* Mutant of ExampleValidatorInputs: the statistics argument left out.
ExampleValidatorInputs_schema_only == {Artifact("user_schema_importer", "schema")}

ExampleValidatorInputs ==
    {Artifact("statistics_gen", "statistics"),
     Artifact("user_schema_importer", "schema")}

ResetEditor ==
    /\ schema' = EmptySchema
    /\ cs_pc' = "idle"
    /\ edits' = <<>>
    /\ probe_log' = <<>>
    /\ call' = NoCall
    /\ before' = EmptySchema
    /\ returned' = <<>>
    /\ valid' = NoVerdict

\* An exception e raised inside a stage method: into that method's handler.
RaiseInStage(e) ==
    /\ exc' = e
    /\ origin' = e
    /\ pc' = "stage_except"

\* Mutant of RunStage: the component is recorded before it is run.
RunStage_record_first(stage, inputs, component, next) ==
    /\ invoked' = Append(invoked, [stage |-> stage, inputs |-> inputs])
    /\ components' = Append(components, component)
    /\ \E e \in {""} \cup StageErrors :
          IF e = ""
          THEN /\ pc' = next
               /\ UNCHANGED <<exc, origin>>
          ELSE RaiseInStage(e)

\* context.run(component): the component is recorded when the run returns, and
\* what the run raises goes to the stage method's handler.
RunStage(stage, inputs, component, next) ==
    /\ invoked' = Append(invoked, [stage |-> stage, inputs |-> inputs])
    /\ \E e \in {""} \cup StageErrors :
          IF e = ""
          THEN /\ components' = Append(components, component)
               /\ pc' = next
               /\ UNCHANGED <<exc, origin>>
          ELSE /\ RaiseInStage(e)
               /\ UNCHANGED components

\* Mutant of CheckData: main goes on to build the pipeline without the data file.
CheckData_ignore ==
    /\ pc = "start"
    /\ pc' = "init_pipeline"
    /\ UNCHANGED <<data_exists, components, invoked, files, origin, exc, shown,
                   queries, editor_vars, tracker_vars>>

\* main up to the test for the data file.
CheckData ==
    /\ pc = "start"
    /\ pc' = IF data_exists THEN "init_pipeline" ELSE "returned"
    /\ UNCHANGED <<data_exists, components, invoked, files, origin, exc, shown,
                   queries, editor_vars, tracker_vars>>

\* TFXPipeline(...): the context and the store connection, either may raise.
InitPipeline ==
    /\ pc = "init_pipeline"
    /\ \E e \in {""} \cup StageErrors :
          IF e = ""
          THEN /\ pc' = "example_gen"
               /\ UNCHANGED <<exc, origin>>
          ELSE /\ exc' = e
               /\ origin' = e
               /\ pc' = "main_except"
    /\ components' = <<>>
    /\ UNCHANGED <<data_exists, invoked, files, shown, queries, editor_vars,
                   tracker_vars>>

RunExampleGen ==
    /\ pc = "example_gen"
    /\ RunStage("CsvExampleGen", ExampleGenInputs, "example_gen", "statistics_gen")
    /\ UNCHANGED <<data_exists, files, shown, queries, editor_vars, tracker_vars>>

RunStatisticsGen ==
    /\ pc = "statistics_gen"
    /\ RunStage("StatisticsGen", StatisticsGenInputs, "statistics_gen", "schema_gen")
    /\ UNCHANGED <<data_exists, files, shown, queries, editor_vars, tracker_vars>>

RunSchemaGen ==
    /\ pc = "schema_gen"
    /\ RunStage("SchemaGen", SchemaGenInputs, "schema_gen", "create_curated_schema")
    /\ UNCHANGED <<data_exists, files, shown, queries, editor_vars, tracker_vars>>

\* create_curated_schema: the inferred schema is loaded and handed to the editor.
CurateLoad ==
    /\ pc = "create_curated_schema"
    /\ \/ /\ \E s \in Schemas : EnterCustomizeSchema(s)
          /\ call' = [op |-> "customize_schema", tags |-> <<>>, n |-> 1]
          /\ pc' = "customize_schema"
          /\ UNCHANGED <<exc, origin, returned, valid>>
       \/ /\ \E e \in StageErrors : RaiseInStage(e)
          /\ UNCHANGED editor_vars
    /\ UNCHANGED <<data_exists, components, invoked, files, shown, queries,
                   tracker_vars>>

\* customize_schema raised: into create_curated_schema's handler.
CurateRaised ==
    /\ pc = "customize_schema"
    /\ cs_pc = "raised"
    /\ pc' = "stage_except"
    /\ ResetEditor
    /\ UNCHANGED <<data_exists, components, invoked, files, origin, exc, shown,
                   queries, tracker_vars>>

\* customize_schema returned: the curated schema is written to its file.
CurateWrite ==
    /\ pc = "customize_schema"
    /\ cs_pc = "returned"
    /\ \E e \in {""} \cup StageErrors :
          IF e = ""
          THEN /\ files' = files \cup
                      {[SchemaFile EXCEPT !.of = Artifact("schema_gen", "schema")]}
               /\ pc' = "import_schema"
               /\ UNCHANGED <<exc, origin>>
          ELSE /\ RaiseInStage(e)
               /\ UNCHANGED files
    /\ ResetEditor
    /\ UNCHANGED <<data_exists, components, invoked, shown, queries, tracker_vars>>

RunImportSchemaGen ==
    /\ pc = "import_schema"
    /\ RunStage("ImportSchemaGen", ImportSchemaGenInputs, "user_schema_importer",
                "example_validator")
    /\ UNCHANGED <<data_exists, files, shown, queries, editor_vars, tracker_vars>>

RunExampleValidator ==
    /\ pc = "example_validator"
    /\ RunStage("ExampleValidator", ExampleValidatorInputs, "example_validator",
                "display_results")
    /\ UNCHANGED <<data_exists, files, shown, queries, editor_vars, tracker_vars>>

\* Mutant of PipelineExcept: the error is logged and swallowed.
PipelineExcept_swallow ==
    /\ pc = "pipeline_except"
    /\ pc' = "display_results"
    /\ exc' = ""
    /\ UNCHANGED <<data_exists, components, invoked, files, origin, shown, queries,
                   editor_vars, tracker_vars>>

\* The handler of a stage method: logs and raises again.
StageExcept ==
    /\ pc = "stage_except"
    /\ pc' = "pipeline_except"
    /\ UNCHANGED <<data_exists, components, invoked, files, origin, exc, shown,
                   queries, editor_vars, tracker_vars>>

\* The handler of run_full_pipeline: logs and raises again.
PipelineExcept ==
    /\ pc = "pipeline_except"
    /\ pc' = "main_except"
    /\ UNCHANGED <<data_exists, components, invoked, files, origin, exc, shown,
                   queries, editor_vars, tracker_vars>>

\* The handler of main: logs and raises again, which ends the process.
MainExcept ==
    /\ pc = "main_except"
    /\ pc' = "failed"
    /\ UNCHANGED <<data_exists, components, invoked, files, origin, exc, shown,
                   queries, editor_vars, tracker_vars>>

\* What display_results shows, given the components recorded.
ToShow(comps) ==
    (IF "user_schema_importer" \in Range(comps)
     THEN <<Artifact("user_schema_importer", "schema")>> ELSE <<>>) \o
    (IF "example_validator" \in Range(comps)
     THEN <<Artifact("example_validator", "anomalies")>> ELSE <<>>)

\* Mutant of DisplayResults: what a show raises is raised again, to main's handler.
DisplayResults_reraise ==
    /\ pc = "display_results"
    /\ \E k \in 0..Len(ToShow(components)) :
          /\ shown' = SubSeq(ToShow(components), 1, k)
          /\ IF k = Len(ToShow(components))
             THEN /\ pc' = "metadata_tracking"
                  /\ UNCHANGED <<exc, origin>>
             ELSE /\ pc' = "main_except"
                  /\ exc' = "RuntimeError"
                  /\ origin' = "RuntimeError"
    /\ UNCHANGED <<data_exists, components, invoked, files, queries,
                   editor_vars, tracker_vars>>

\* display_results: the shows in turn; what one raises is logged and ends them.
DisplayResults ==
    /\ pc = "display_results"
    /\ \E k \in 0..Len(ToShow(components)) : shown' = SubSeq(ToShow(components), 1, k)
    /\ pc' = "metadata_tracking"
    /\ UNCHANGED <<data_exists, components, invoked, files, origin, exc, queries,
                   editor_vars, tracker_vars>>

\* A call made on the lineage reporter and the number of items it returned.
Query(name, val) == [query |-> name, found |-> Len(val)]

\* Mutant of DemonstrateMetadataTracking: the Schema query made whatever the
\* lineage lookup returned.
DemonstrateMetadataTracking_always_queries ==
    /\ pc = "metadata_tracking"
    /\ \E st \in Stores, fails \in FailureModes :
          LET r == track_example_anomalies_lineage(st, fails)
          IN  /\ store' = st
              /\ lineage' = [op |-> "track_example_anomalies_lineage", arg |-> 0,
                             fails |-> fails, exc |-> r.exc, val |-> r.val]
              /\ queries' =
                     <<Query("track_example_anomalies_lineage", r.val),
                       Query("get_schema_artifacts",
                             get_schema_artifacts(st, fails).val)>>
    /\ pc' = "completed"
    /\ UNCHANGED <<data_exists, components, invoked, files, origin, exc, shown,
                   editor_vars>>

\* demonstrate_metadata_tracking on the store as the stages left it: the lineage
\* lookup, and the Schema query when it returned a record; what is raised is
\* logged.  Then main's last line.
DemonstrateMetadataTracking ==
    /\ pc = "metadata_tracking"
    /\ \E st \in Stores, fails \in FailureModes :
          LET r == track_example_anomalies_lineage(st, fails)
          IN  /\ store' = st
              /\ lineage' = [op |-> "track_example_anomalies_lineage", arg |-> 0,
                             fails |-> fails, exc |-> r.exc, val |-> r.val]
              /\ queries' =
                     IF r.exc = "" /\ r.val # None
                     THEN <<Query("track_example_anomalies_lineage", r.val),
                            Query("get_schema_artifacts",
                                  get_schema_artifacts(st, fails).val)>>
                     ELSE <<Query("track_example_anomalies_lineage", r.val)>>
    /\ pc' = "completed"
    /\ UNCHANGED <<data_exists, components, invoked, files, origin, exc, shown,
                   editor_vars>>

Init ==
    /\ pc = "start"
    /\ data_exists \in BOOLEAN
    /\ components = <<>>
    /\ invoked = <<>>
    /\ files = {}
    /\ origin = ""
    /\ exc = ""
    /\ shown = <<>>
    /\ queries = <<>>
    /\ schema = EmptySchema
    /\ cs_pc = "idle"
    /\ edits = <<>>
    /\ probe_log = <<>>
    /\ call = NoCall
    /\ before = EmptySchema
    /\ returned = <<>>
    /\ valid = NoVerdict
    /\ store = EmptyStore
    /\ lineage = NoLineage

Next ==
    \/ CheckData
    \/ InitPipeline
    \/ RunExampleGen
    \/ RunStatisticsGen
    \/ RunSchemaGen
    \/ CurateLoad
    \/ EditAgeDomain
    \/ EditEnvironments
    \/ EditServingEnvironment
    \/ EditAdditionalValidations
    \/ CustomizeSchemaExcept
    \/ CurateRaised
    \/ CurateWrite
    \/ RunImportSchemaGen
    \/ RunExampleValidator
    \/ StageExcept
    \/ PipelineExcept
    \/ MainExcept
    \/ DisplayResults
    \/ DemonstrateMetadataTracking

Spec == Init /\ [][Next]_vars


\* ---------------------------------------------- claims on the coordinator

\* The five stages in the order of run_full_pipeline, and the output each declares.
StageOrder == <<"CsvExampleGen", "StatisticsGen", "SchemaGen", "ImportSchemaGen",
                "ExampleValidator">>

DeclaredOutput(stage) ==
    CASE stage = "CsvExampleGen" -> Artifact("example_gen", "examples")
      [] stage = "StatisticsGen" -> Artifact("statistics_gen", "statistics")
      [] stage = "SchemaGen" -> Artifact("schema_gen", "schema")
      [] stage = "ImportSchemaGen" -> Artifact("user_schema_importer", "schema")
      [] stage = "ExampleValidator" -> Artifact("example_validator", "anomalies")

StagesInvoked == [i \in 1..Len(invoked) |-> invoked[i].stage]

\* The artifacts a stage got: those handed to it, and for a file handed to it
\* the artifact whose content the file holds.
Received(i) ==
    {x \in invoked[i].inputs : x.kind = "artifact"} \cup
    {f.of : f \in {g \in files : \E x \in invoked[i].inputs :
                                     x.kind = "file" /\ x.key = g.key}}

\* C1, as claimed: the stages are invoked in the fixed order and each gets
\* exactly the declared output of the stage before it.
C1_AsClaimed ==
    /\ IsPrefix(StagesInvoked, StageOrder)
    /\ \A i \in 2..Len(invoked) : Received(i) = {DeclaredOutput(invoked[i - 1].stage)}

\* C1, amended: the stages are invoked in the fixed order, all five when the run
\* completes; the first gets the data directory, the second to the fourth the
\* declared output of the stage before (the fourth as the curated file written
\* from it), and ExampleValidator gets the importer's schema together with the
\* statistics of StatisticsGen, the second stage.
C1_StageInputs ==
    /\ IsPrefix(StagesInvoked, StageOrder)
    /\ invoked # <<>> => data_exists
    /\ pc = "completed" => StagesInvoked = StageOrder
    /\ Len(invoked) >= 1 => invoked[1].inputs = {DataRoot}
    /\ \A i \in 2..Len(invoked) :
          IF i < 5 THEN Received(i) = {DeclaredOutput(invoked[i - 1].stage)}
          ELSE Received(i) = {DeclaredOutput("ImportSchemaGen"),
                              DeclaredOutput("StatisticsGen")}
    /\ Len(invoked) >= 4 => invoked[4].inputs = {SchemaFile}

C1_Witness ==
    /\ pc = "completed"
    /\ data_exists
    /\ Len(invoked) = 5
    /\ invoked[5].stage = "ExampleValidator"

\* C2: an error raised in a stage reaches the end of main unchanged: while it
\* propagates no stage is invoked or recorded, nothing is shown and no store
\* query is made; no stage is invoked twice; the process fails with that error,
\* and results are displayed only when nothing was raised.
C2_State ==
    /\ NoDup(StagesInvoked)
    /\ exc # "" => exc = origin
    /\ pc \in {"stage_except", "pipeline_except", "main_except", "failed"} => exc # ""
    /\ pc = "failed" =>
          /\ exc = origin
          /\ shown = <<>>
          /\ queries = <<>>
          /\ lineage = NoLineage
    /\ pc \in {"display_results", "metadata_tracking", "completed"} =>
          /\ origin = ""
          /\ StagesInvoked = StageOrder

C2_Step ==
    exc # "" =>
        /\ exc' = exc
        /\ invoked' = invoked
        /\ components' = components
        /\ shown' = shown
        /\ queries' = queries
        /\ pc' \notin {"display_results", "metadata_tracking", "completed", "returned"}

C2_FailFast == [](C2_State) /\ [][C2_Step]_vars

C2_Witness ==
    /\ pc = "failed"
    /\ exc = "IOError"
    /\ StagesInvoked = SubSeq(StageOrder, 1, 2)
    /\ components = <<"example_gen">>

\* The store queries demonstrate_metadata_tracking made, from the store's content
\* and what the lineage lookup returned.
QueriesMade ==
    LET places == PlacesOfType(store, "ExampleAnomalies")
        refs == IF places = {} THEN {}
                ELSE PlacesOfArtifact(store, store.artifacts[Least(places)].id)
    IN  (IF queries # <<>> THEN {"get_artifacts_by_type:ExampleAnomalies"} ELSE {}) \cup
        (IF queries # <<>> /\ places # {} /\
            "get_artifacts_by_type:ExampleAnomalies" \notin lineage.fails
         THEN {"get_events_by_artifact_ids"} ELSE {}) \cup
        (IF queries # <<>> /\ refs # {} /\
            lineage.fails \cap {"get_artifacts_by_type:ExampleAnomalies",
                                "get_events_by_artifact_ids"} = {}
         THEN {"get_events_by_execution_ids"} ELSE {}) \cup
        (IF Len(queries) = 2 THEN {"get_artifacts_by_type:Schema"} ELSE {})

\* C11: an error raised in a stage or in schema curation ends the run in failure;
\* once the five stages are recorded nothing is raised any more: a failing show
\* and a failing store query are swallowed, the failed query's caller returns
\* an empty result, display_results can always be followed by
\* demonstrate_metadata_tracking and that by main's last line.
C11_State ==
    /\ origin # "" =>
          pc \in {"customize_schema", "stage_except", "pipeline_except",
                  "main_except", "failed"}
    /\ Len(components) = 5 =>
          /\ pc \in {"display_results", "metadata_tracking", "completed"}
          /\ exc = ""
          /\ origin = ""
    /\ pc = "display_results" => ENABLED DisplayResults
    /\ pc = "metadata_tracking" => ENABLED DemonstrateMetadataTracking
    /\ pc = "completed" =>
          /\ Len(components) = 5
          /\ lineage.exc = ""
          /\ queries # <<>>
          /\ queries[1].found = Len(lineage.val)
          /\ (lineage.fails \cap QueriesMade) \ {"get_artifacts_by_type:Schema"} # {}
                 => lineage.val = None
          /\ "get_artifacts_by_type:Schema" \in lineage.fails \cap QueriesMade
                 => queries[2].found = 0

C11_Step ==
    /\ pc = "display_results" => pc' = "metadata_tracking" /\ exc' = ""
    /\ pc = "metadata_tracking" => pc' = "completed" /\ exc' = ""
    /\ pc = "completed" => UNCHANGED vars

C11_Degrades == [](C11_State) /\ [][C11_Step]_vars

C11_Witness ==
    /\ pc = "completed"
    /\ shown = <<>>
    /\ lineage.fails = {"get_events_by_execution_ids"}
    /\ "get_events_by_execution_ids" \in QueriesMade
    /\ lineage.val = None
    /\ queries = <<Query("track_example_anomalies_lineage", <<>>)>>


\* ---------------------------------------- further claims on the editor

\* Schema s differs from schema b at most in the age feature's domain, in the
\* default environment list and in the label feature's not_in_environment list.
SameButEdited(s, b) ==
    /\ Len(s.feature) = Len(b.feature)
    /\ \A i \in 1..Len(s.feature) :
          /\ s.feature[i].name = b.feature[i].name
          /\ s.feature[i].name # "age" => s.feature[i].domain = b.feature[i].domain
          /\ s.feature[i].name # "label" =>
                 s.feature[i].not_in_environment = b.feature[i].not_in_environment

\* C12: during and after customize_schema the schema object the editor was handed
\* has the features it came with, in their order, and differs from what it was at
\* most in age's domain, the default environments and label's excluded
\* environments; the schema returned is that object; the probing step leaves the
\* schema as it is, and each earlier step writes to its own part only.
C12_State ==
    call.op = "customize_schema" =>
        /\ SameButEdited(schema, before)
        /\ cs_pc = "returned" =>
              /\ returned # <<>>
              /\ returned[Len(returned)] = schema

C12_Step ==
    /\ cs_pc = "add_additional_validations" => schema' = schema
    /\ cs_pc = "customize_age_domain" =>
          /\ schema'.default_environment = schema.default_environment
          /\ \A i \in 1..Len(schema.feature) :
                schema'.feature[i].not_in_environment =
                    schema.feature[i].not_in_environment
    /\ cs_pc = "add_environments" => schema'.feature = schema.feature
    /\ cs_pc = "configure_serving_environment" =>
          /\ schema'.default_environment = schema.default_environment
          /\ \A i \in 1..Len(schema.feature) :
                schema'.feature[i].domain = schema.feature[i].domain

C12_Frame == [](C12_State) /\ [][C12_Step]_vars

C12_Witness ==
    /\ call.op = "customize_schema"
    /\ cs_pc = "returned"
    /\ Len(schema.feature) = 4
    /\ schema.feature[1].domain # before.feature[1].domain
    /\ schema.default_environment # before.default_environment
    /\ schema.feature[4].not_in_environment # before.feature[4].not_in_environment
    /\ schema.feature[1].not_in_environment = <<"TRAINING">>
    /\ returned[Len(returned)] = schema

LacksEdited(s) == ~HasFeature(s, "age") \/ ~HasFeature(s, "label")

FailurePath == {"stage_except", "pipeline_except", "main_except", "failed"}

\* C13: when the inferred schema lacks age or label, customize_schema stops at
\* the edit that needs the feature with a ValueError and raises it again; from
\* there the run goes through the three handlers to failure with that error:
\* customize_schema does not return, no file is written, only the first three
\* stages were invoked and recorded, nothing is shown and no query is made.
C13_State ==
    /\ (pc = "customize_schema" /\ LacksEdited(before)) =>
          /\ cs_pc \in IF ~HasFeature(before, "age")
                       THEN {"customize_age_domain", "except", "raised"}
                       ELSE {"customize_age_domain", "add_environments",
                             "configure_serving_environment", "except", "raised"}
          /\ cs_pc \in {"except", "raised"} => exc = "ValueError"
          /\ returned = <<>>
    /\ (pc = "customize_schema" /\ cs_pc \in {"except", "raised"}) =>
          LacksEdited(before)
    /\ origin = "ValueError" =>
          /\ exc = "ValueError"
          /\ pc \in {"customize_schema"} \cup FailurePath
          /\ pc = "customize_schema" => cs_pc \in {"except", "raised"}
          /\ files = {}
          /\ StagesInvoked = SubSeq(StageOrder, 1, 3)
          /\ components = <<"example_gen", "statistics_gen", "schema_gen">>
          /\ shown = <<>>
          /\ queries = <<>>

C13_Step ==
    (pc = "customize_schema" /\ LacksEdited(before)) =>
        /\ pc' \in {"customize_schema", "stage_except"}
        /\ pc' = "stage_except" => cs_pc = "raised" /\ exc' = "ValueError"
        /\ files' = files
        /\ invoked' = invoked
        /\ components' = components

C13_CurationFails == [](C13_State) /\ [][C13_Step]_vars

C13_Witness ==
    /\ pc = "failed"
    /\ origin = "ValueError"
    /\ exc = "ValueError"
    /\ files = {}
    /\ Len(invoked) = 3
    /\ "user_schema_importer" \notin Range(components)

\* The keys of TFXPipeline.components in the order of run_full_pipeline.
ComponentOrder == <<"example_gen", "statistics_gen", "schema_gen",
                    "user_schema_importer", "example_validator">>

\* C15: the keys recorded in components are at every point a prefix of the stage
\* order; the i-th key is that of the i-th stage run; a key is recorded in the
\* step in which the stage's run returns without an error, and at no other time;
\* a stage whose run raised is not recorded, and once an error was raised no key
\* is recorded any more.
C15_State ==
    /\ IsPrefix(components, ComponentOrder)
    /\ Len(components) <= Len(invoked)
    /\ Len(invoked) <= Len(components) + 1
    /\ \A i \in 1..Len(components) : invoked[i].stage = StageOrder[i]
    /\ Len(invoked) > Len(components) =>
          /\ exc \in StageErrors
          /\ pc \in FailurePath
    /\ exc = "" => Len(components) = Len(invoked)

C15_Step ==
    /\ components' # components =>
          /\ Len(components) < Len(ComponentOrder)
          /\ components' = Append(components, ComponentOrder[Len(components) + 1])
          /\ Len(invoked') = Len(invoked) + 1
          /\ invoked'[Len(invoked')].stage = StageOrder[Len(components) + 1]
          /\ exc = ""
          /\ exc' = ""
          /\ pc' \notin FailurePath
    /\ origin # "" => components' = components

C15_RecordedPrefix == [](C15_State) /\ [][C15_Step]_vars

C15_Witness ==
    /\ pc = "failed"
    /\ exc \in StageErrors
    /\ StagesInvoked = SubSeq(StageOrder, 1, 4)
    /\ components = SubSeq(ComponentOrder, 1, 3)
    /\ files # {}

\* C16: without the data file main only tests for it and returns: the pipeline
\* is not built, no stage is invoked or recorded, no file is written, nothing is
\* shown, the store is neither connected to nor queried, and nothing is raised;
\* main returns this way only when the file is absent.
C16_State ==
    /\ ~data_exists =>
          /\ pc \in {"start", "returned"}
          /\ invoked = <<>>
          /\ components = <<>>
          /\ files = {}
          /\ shown = <<>>
          /\ queries = <<>>
          /\ store = EmptyStore
          /\ lineage = NoLineage
          /\ cs_pc = "idle"
          /\ exc = ""
          /\ origin = ""
    /\ pc = "returned" => ~data_exists

C16_Step ==
    /\ (pc = "start" /\ ~data_exists) => pc' = "returned"
    /\ pc = "returned" => UNCHANGED vars

QueryCalls == [i \in 1..Len(queries) |-> queries[i].query]

\* C17: results are shown and the lineage is looked up only with all five stages
\* run and recorded and nothing raised; display_results is entered from the last
\* stage, demonstrate_metadata_tracking from display_results, and the run
\* completes from there; the lineage lookup is the first reporter call, and
\* get_schema_artifacts is called after it exactly when it returned a record.
C17_State ==
    /\ (pc \in {"display_results", "metadata_tracking", "completed"}
            \/ shown # <<>> \/ queries # <<>>) =>
          /\ components = ComponentOrder
          /\ StagesInvoked = StageOrder
          /\ origin = ""
    /\ shown # <<>> => pc \in {"metadata_tracking", "completed"}
    /\ (queries # <<>> \/ lineage # NoLineage \/ store # EmptyStore) =>
          pc = "completed"
    /\ pc = "completed" =>
          /\ QueryCalls \in {<<"track_example_anomalies_lineage">>,
                              <<"track_example_anomalies_lineage",
                                "get_schema_artifacts">>}
          /\ "get_schema_artifacts" \in Range(QueryCalls) <=> lineage.val # None

C17_Step ==
    /\ (pc' = "display_results" /\ pc # "display_results") =>
          pc = "example_validator"
    /\ shown' # shown => pc = "display_results"
    /\ (pc' = "metadata_tracking" /\ pc # "metadata_tracking") =>
          pc = "display_results"
    /\ queries' # queries => pc = "metadata_tracking"
    /\ (pc' = "completed" /\ pc # "completed") => pc = "metadata_tracking"

C17_DisplayOrder == [](C17_State) /\ [][C17_Step]_vars

C17_Witness ==
    /\ pc = "completed"
    /\ Len(shown) = 2
    /\ lineage.val # None
    /\ QueryCalls = <<"track_example_anomalies_lineage", "get_schema_artifacts">>
    /\ queries[2].found = 1


\* --------------------------------------- further claims on the reporter

\* C14, as claimed: the first event that references the tracked artifact is an
\* OUTPUT event, and the record lists the tracked artifact among its output ids
\* and not among its input ids.
C14_AsClaimed ==
    HasRecord =>
        LET refs == PlacesOfArtifact(store, Record.artifact_id)
        IN  /\ refs # {}
            /\ store.events[Least(refs)].type = "OUTPUT"
            /\ Record.artifact_id \in Range(Record.output_ids)
            /\ Record.artifact_id \notin Range(Record.input_ids)

====
